---- MODULE Spec2Model ----
(***************************************************************************)
(* Model of MiniSeedParser.fetch_waveform_data (src/miniseed_parser.py):   *)
(* a time-windowed query against the FDSN dataselect service, the          *)
(* classification of its outcome, the decoding of the miniSEED payload     *)
(* and the amplitude statistics of the first decoded trace.                *)
(***************************************************************************)
EXTENDS Integers, Sequences, FiniteSets, TLC

\* ------------------------------------------------------------------ bounds
NumQueries == 2        \* concurrent invocations of fetch_waveform_data
MaxSamples == 2        \* longest sample sequence of the statistics check

Queries == 1..NumQueries

\* ------------------------------------------------------- exception classes
\* The direct base classes of the exceptions the try block can raise.
Bases(cls) ==
  CASE cls = "ConnectTimeout"   -> {"ConnectionError", "Timeout"}
    [] cls = "ConnectionError"  -> {"RequestException"}
    [] cls = "Timeout"          -> {"RequestException"}
    [] cls = "RequestException" -> {"Exception"}
    [] cls = "ValueError"       -> {"Exception"}
    [] cls = "InternalMSEEDError" -> {"Exception"}
    [] OTHER                    -> {}

RECURSIVE IsInstance(_, _)
IsInstance(cls, target) ==
  \/ cls = target
  \/ \E b \in Bases(cls) : IsInstance(b, target)

\* ---------------------------------------------------------- failure record
FailureBare(kind, msg) ==
  [success |-> FALSE, error |-> kind, message |-> msg]

Failure(kind, msg) ==
  [success |-> FALSE, error |-> kind, message |-> msg,
   samples |-> <<>>, metadata |-> <<>>]

\* The except clauses in the order of the source; the first clause whose
\* class the raised exception is an instance of handles it.
HandlersSwapped ==
  << [cls |-> "RequestException", kind |-> "network-error",
      prefix |-> "Network error: "],
     [cls |-> "Timeout", kind |-> "timeout", prefix |-> ""],
     [cls |-> "Exception", kind |-> "parsing-error",
      prefix |-> "Error parsing miniSEED data: "] >>

HandlersNoCatchAll ==
  << [cls |-> "Timeout", kind |-> "timeout", prefix |-> ""],
     [cls |-> "RequestException", kind |-> "network-error",
      prefix |-> "Network error: "] >>

Handlers ==
  << [cls |-> "Timeout", kind |-> "timeout", prefix |-> ""],
     [cls |-> "RequestException", kind |-> "network-error",
      prefix |-> "Network error: "],
     [cls |-> "Exception", kind |-> "parsing-error",
      prefix |-> "Error parsing miniSEED data: "] >>

\* the index of the clause that handles the exception, 0 when none does
HandlerOf(exc) ==
  LET matching == {j \in 1..Len(Handlers) : IsInstance(exc.cls, Handlers[j].cls)}
  IN IF matching = {} THEN 0
     ELSE CHOOSE j \in matching : \A m \in matching : j <= m

Catch(exc) ==
  LET h == Handlers[HandlerOf(exc)]
  IN IF h.kind = "timeout"
       THEN Failure("timeout", "Request to FDSN service timed out")
       ELSE Failure(h.kind, h.prefix \o exc.text)

\* ------------------------------------------------ exact wide arithmetic
\* Values wider than 32 bits (the float64 sums and the exact squares of
\* int32 samples) are little-endian digit vectors, two's complement modulo
\* Base^NumDigits.
Base == 2^12
NumDigits == 2 * 3
Digits == 1..NumDigits
Pow(i) == IF i = 0 THEN 1 ELSE IF i = 1 THEN Base ELSE Base * Base

MinInt32 == -2147483647 - 1
MaxInt32 == 2147483647

\* the wide value of an integer of the int32 range
Wide(x) ==
  [i \in Digits |-> IF i <= 3 THEN (x \div Pow(i - 1)) % Base
                    ELSE IF x < 0 THEN Base - 1 ELSE 0]

IsNegative(a) == a[NumDigits] >= Base \div 2

RECURSIVE AddFrom(_, _, _, _)
AddFrom(a, b, i, carry) ==
  IF i > NumDigits THEN <<>>
  ELSE LET t == a[i] + b[i] + carry
       IN <<t % Base>> \o AddFrom(a, b, i + 1, t \div Base)

WideAdd(a, b) == AddFrom(a, b, 1, 0)

RECURSIVE Column(_, _, _, _)
\* sum of a[j] * b[k + 1 - j] for j in i..k
Column(a, b, k, i) ==
  IF i > k THEN 0 ELSE a[i] * b[k + 1 - i] + Column(a, b, k, i + 1)

RECURSIVE MulFrom(_, _, _, _)
MulFrom(a, b, k, carry) ==
  IF k > NumDigits THEN <<>>
  ELSE LET t == Column(a, b, k, 1) + carry
       IN <<t % Base>> \o MulFrom(a, b, k + 1, t \div Base)

\* product of two non-negative wide values
WideMul(a, b) == MulFrom(a, b, 1, 0)

\* a <= b for non-negative wide values
RECURSIVE LeqFrom(_, _, _)
LeqFrom(a, b, i) ==
  IF i = 0 THEN TRUE
  ELSE IF a[i] # b[i] THEN a[i] < b[i] ELSE LeqFrom(a, b, i - 1)

WideLeq(a, b) == LeqFrom(a, b, NumDigits)

\* |x| as a wide value, exact also for the most negative int32
WideAbs(x) ==
  IF x = MinInt32 THEN [i \in Digits |-> IF i = 3 THEN 128 ELSE 0]
  ELSE Wide(IF x < 0 THEN -x ELSE x)

\* the low 32 bits of a wide value read as a signed int32
Int32Of(a) ==
  LET top == a[3] % 256
  IN a[1] + a[2] * Base + (IF top >= 128 THEN top - 256 ELSE top) * Base * Base

\* ------------------------------------------------------ amplitude statistics
\* np.abs and ** keep the int32 dtype of trace.data: both wrap modulo 2^32.
Abs32(x) == Int32Of(WideAbs(x))
Sq32(x) == Int32Of(WideMul(WideAbs(x), WideAbs(x)))

RECURSIVE MaxOf(_)
MaxOf(s) ==
  IF Len(s) = 1 THEN s[1]
  ELSE LET m == MaxOf(Tail(s)) IN IF s[1] >= m THEN s[1] ELSE m

RECURSIVE WideSum(_)
WideSum(s) == IF s = <<>> THEN Wide(0) ELSE WideAdd(s[1], WideSum(Tail(s)))

\* np.mean accumulates in float64: the mean is the exact sum over the count
Mean(ws) == [num |-> WideSum(ws), den |-> Len(ws)]

\* np.sqrt of a mean: NaN for a negative one, else the root of num/den,
\* kept as its radicand
Sqrt(m) ==
  IF IsNegative(m.num) THEN [nan |-> TRUE, num |-> Wide(0), den |-> 1]
  ELSE [nan |-> FALSE, num |-> m.num, den |-> m.den]

ZeroFloat == [nan |-> FALSE, num |-> Wide(0), den |-> 1]

PeakAmplitude(data) ==
  IF Len(data) > 0 THEN MaxOf([k \in 1..Len(data) |-> Abs32(data[k])]) ELSE 0

RmsAmplitude(data) ==
  IF Len(data) > 0
    THEN Sqrt(Mean([k \in 1..Len(data) |-> Wide(Sq32(data[k]))]))
    ELSE ZeroFloat

\* ------------------------------------------------------------ query inputs
\* UTCDateTime(text): the instant (seconds) a timestamp text denotes, or a
\* ValueError for a text that is no timestamp.
\* the (start_time, end_time) pairs given to the invocations: an ordered
\* window, an inverted one, an empty one, and texts that do not parse
QueryArgs ==
  { [start_time |-> "2024-01-01T00:00:00", end_time |-> "2024-01-01 00:10:00"],
    [start_time |-> "2024-01-01 00:10:00", end_time |-> "2024-01-01T00:00:00"],
    [start_time |-> "2024-01-01T00:00:00", end_time |-> "2024-01-01T00:00:00"],
    [start_time |-> "2024-01-01T00:00:00", end_time |-> "not-a-time"] }

Parses(text) == text # "not-a-time"

UTCDateTime(text) ==
  CASE text = "2024-01-01T00:00:00" -> 0
    [] text = "2024-01-01 00:10:00" -> 600

IsoFormat(t) ==
  CASE t = 0   -> "2024-01-01T00:00:00"
    [] t = 600 -> "2024-01-01T00:10:00"

\* the channel of query i: distinct queries ask for distinct stations
Network(i) == "US"
Station(i) == "ST" \o ToString(i)
Location(i) == IF i % 2 = 1 THEN "--" ELSE "00"
Channel(i) == "BHZ"
Quality(i) == "B"
ChannelText(i) ==
  Network(i) \o "." \o Station(i) \o "." \o Location(i) \o "." \o Channel(i)

BaseUrl == "https://service.iris.edu"
DataselectUrl == BaseUrl \o "/fdsnws/dataselect/1/query"

\* ------------------------------------------------------ remote and decoder
\* Decoded traces (obspy Trace: stats and an int32 data array).
TraceA ==
  [stats |-> [network |-> "US", station |-> "ANMO", location |-> "",
              channel |-> "BHZ", starttime |-> 0, endtime |-> 600,
              sampling_rate |-> 1, npts |-> 4, calib |-> 1, delta |-> 1],
   data |-> <<1, -5, 3, -2>>]

TraceB ==
  [stats |-> [network |-> "IU", station |-> "COLA", location |-> "00",
              channel |-> "BHN", starttime |-> 600, endtime |-> 600,
              sampling_rate |-> 1, npts |-> 0, delta |-> 1,
              processing |-> <<"trim">>, response |-> "resp"],
   data |-> <<>>]

\* Response bodies: the byte count and what obspy's read makes of the bytes.
Payloads ==
  { [name |-> "empty",     len |-> 0],
    [name |-> "truncated", len |-> 100],
    [name |-> "norecords", len |-> 64],
    [name |-> "two",       len |-> 1024] }

EmptyPayload == [name |-> "empty", len |-> 0]

\* read(BytesIO(content), format='MSEED'): a stream or a raised exception
Read(payload) ==
  CASE payload.name = "empty" ->
         [raises |-> TRUE,
          exc |-> [cls |-> "ValueError", text |-> "Cannot read empty file"]]
    [] payload.name = "truncated" ->
         [raises |-> TRUE,
          exc |-> [cls |-> "InternalMSEEDError",
                   text |-> "record length exceeds remaining bytes"]]
    [] payload.name = "norecords" -> [raises |-> FALSE, stream |-> <<>>]
    [] payload.name = "two" -> [raises |-> FALSE, stream |-> <<TraceA, TraceB>>]

\* What requests.get can do: raise a transport fault or return a response.
Statuses == {200, 204, 404, 500}

Faults ==
  { [cls |-> "ConnectTimeout",  text |-> "connect timed out"],
    [cls |-> "ConnectionError", text |-> "connection reset by peer"] }

Outcomes ==
  { [raises |-> TRUE, exc |-> f] : f \in Faults }
  \cup { [raises |-> FALSE, status_code |-> 200, content |-> p] : p \in Payloads }
  \cup { [raises |-> FALSE, status_code |-> st, content |-> EmptyPayload] :
           st \in {204, 404} }
  \cup { [raises |-> FALSE, status_code |-> st,
           content |-> [name |-> "two", len |-> 1024]] :
           st \in Statuses \ {200, 204, 404} }

NoValue == [none |-> TRUE]

\* -------------------------------------------------------------------- state
VARIABLES
  args,        \* args[i]: the start_time and end_time texts of invocation i
  pc,          \* pc[i]: where invocation i stands in fetch_waveform_data
  params,      \* the local params of each frame
  response,    \* the local response of each frame
  stream,      \* the local stream of each frame
  result,      \* result[i]: the record invocation i returned
  served,      \* served[i]: what the remote did with the request of i
  requests,    \* requests[i]: the requests invocation i issued, in order
  decoded,     \* decoded[i]: the byte counts invocation i handed to read
  trace_data,  \* the sample array of the statistics step taken alone
  stats_pc,
  stats_out

vars == <<args, pc, params, response, stream, result, served, requests,
          decoded, trace_data, stats_pc, stats_out>>

fetchVars == <<args, pc, params, response, stream, result, served, requests,
               decoded>>
statsVars == <<trace_data, stats_pc, stats_out>>

\* Locals live in the frame of their own invocation.
SharedFrame(i) == 1

Frame(i) == i

\* A return statement: the invocation ends with the record.
ReturnOrRetry(i, rec) ==
  IF pc[i] = "request" /\ ~rec.success /\ Len(requests[i]) < 1
    THEN /\ pc' = [pc EXCEPT ![i] = "request"]
         /\ UNCHANGED result
    ELSE /\ pc' = [pc EXCEPT ![i] = "done"]
         /\ result' = [result EXCEPT ![i] = rec]

Return(i, rec) ==
  /\ pc' = [pc EXCEPT ![i] = "done"]
  /\ result' = [result EXCEPT ![i] = rec]

\* An exception raised inside the try block: the matching except clause
\* returns its record; with no matching clause it leaves the function.
Raise(i, exc) ==
  IF HandlerOf(exc) # 0
    THEN Return(i, Catch(exc))
    ELSE /\ pc' = [pc EXCEPT ![i] = "raised"]
         /\ UNCHANGED result

Goto(i, label) ==
  /\ pc' = [pc EXCEPT ![i] = label]
  /\ UNCHANGED result

\* ------------------------------------------------------------------ actions
FetchIdle ==
  /\ pc = [i \in Queries |-> "start"]
  /\ params = [i \in Queries |-> NoValue]
  /\ response = [i \in Queries |-> NoValue]
  /\ stream = [i \in Queries |-> <<>>]
  /\ result = [i \in Queries |-> NoValue]
  /\ served = [i \in Queries |-> NoValue]
  /\ requests = [i \in Queries |-> <<>>]
  /\ decoded = [i \in Queries |-> <<>>]

BuildParams(i, start_utc, end_utc) ==
  [network |-> Network(i), station |-> Station(i),
   location |-> IF Location(i) # "--" THEN Location(i) ELSE "",
   channel |-> Channel(i),
   starttime |-> IsoFormat(start_utc), endtime |-> IsoFormat(end_utc),
   quality |-> Quality(i), format |-> "miniseed"]

\* lines 49-62: parse both timestamps and build the query parameters
Begin(i) ==
  /\ pc[i] = "start"
  /\ IF ~Parses(args[i].start_time) \/ ~Parses(args[i].end_time)
       THEN /\ Raise(i, [cls |-> "ValueError", text |-> "not a timestamp"])
            /\ UNCHANGED params
       ELSE /\ params' = [params EXCEPT ![Frame(i)] =
                 BuildParams(i, UTCDateTime(args[i].start_time),
                                UTCDateTime(args[i].end_time))]
            /\ Goto(i, "request")
  /\ UNCHANGED <<args, response, stream, served, requests, decoded, statsVars>>

\* lines 68-73: the GET, answered by the remote or failed by the transport
Request(i) ==
  /\ pc[i] = "request"
  /\ \E o \in Outcomes :
       /\ served' = [served EXCEPT ![i] = o]
       /\ requests' = [requests EXCEPT ![i] =
            Append(@, [url |-> DataselectUrl, params |-> params[Frame(i)],
                       timeout |-> 60])]
       /\ IF o.raises
            THEN /\ Raise(i, o.exc)
                 /\ UNCHANGED response
            ELSE /\ response' = [response EXCEPT ![Frame(i)] = o]
                 /\ Goto(i, "classify")
  /\ UNCHANGED <<args, params, stream, decoded, statsVars>>

\* lines 75-107: the failure record of a response that is not decoded, or
\* NoValue for a response that goes on to the decoder
ClassifyNo204(i, r) ==
  IF r.status_code = 404
    THEN Failure("no-data-available",
                 "No waveform data available for " \o ChannelText(i))
  ELSE IF r.status_code # 200
    THEN Failure("http-" \o ToString(r.status_code),
                 "FDSN service returned status " \o ToString(r.status_code))
  ELSE IF r.content.len = 0
    THEN Failure("empty-response", "Empty response from FDSN service")
  ELSE NoValue

ClassifyNoEmptyCheck(i, r) ==
  IF r.status_code = 404
    THEN Failure("no-data-available",
                 "No waveform data available for " \o ChannelText(i))
  ELSE IF r.status_code = 204
    THEN Failure("no-data-available",
                 "No content returned for " \o ChannelText(i) \o
                 " - station may be offline or no data exists for time period")
  ELSE IF r.status_code # 200
    THEN Failure("http-" \o ToString(r.status_code),
                 "FDSN service returned status " \o ToString(r.status_code))
  ELSE NoValue

Classify(i, r) ==
  IF r.status_code = 404
    THEN Failure("no-data-available",
                 "No waveform data available for " \o ChannelText(i))
  ELSE IF r.status_code = 204
    THEN Failure("no-data-available",
                 "No content returned for " \o ChannelText(i) \o
                 " - station may be offline or no data exists for time period")
  ELSE IF r.status_code # 200
    THEN Failure("http-" \o ToString(r.status_code),
                 "FDSN service returned status " \o ToString(r.status_code))
  ELSE IF r.content.len = 0
    THEN Failure("empty-response", "Empty response from FDSN service")
  ELSE NoValue

Check(i) ==
  /\ pc[i] = "classify"
  /\ LET failure == Classify(i, response[Frame(i)])
     IN IF failure # NoValue THEN Return(i, failure) ELSE Goto(i, "decode")
  /\ UNCHANGED <<args, params, response, stream, served, requests, decoded,
                 statsVars>>

\* lines 113-116: read the body as miniSEED
Decode(i) ==
  /\ pc[i] = "decode"
  /\ LET body == response[Frame(i)].content
         d == Read(body)
     IN /\ decoded' = [decoded EXCEPT ![i] = Append(@, body.len)]
        /\ IF d.raises
             THEN /\ Raise(i, d.exc)
                  /\ UNCHANGED stream
             ELSE /\ stream' = [stream EXCEPT ![Frame(i)] = d.stream]
                  /\ Goto(i, "assemble")
  /\ UNCHANGED <<args, params, response, served, requests, statsVars>>

HasAttr(stats, name) == name \in DOMAIN stats

\* lines 128-162: the success record of a trace
Success(i, trace) ==
  LET stats == trace.stats
      samples == trace.data
  IN [success |-> TRUE,
      network |-> stats.network,
      station |-> stats.station,
      location |-> IF stats.location # "" THEN stats.location ELSE "--",
      channel |-> stats.channel,
      starttime |-> IsoFormat(stats.starttime),
      endtime |-> IsoFormat(stats.endtime),
      sampling_rate |-> stats.sampling_rate,
      npts |-> stats.npts,
      duration |-> stats.endtime - stats.starttime,
      samples |-> samples,
      peak_amplitude |-> PeakAmplitude(trace.data),
      rms_amplitude |-> RmsAmplitude(trace.data),
      quality |-> Quality(i),
      format |-> "real-miniseed",
      metadata |->
        [calib |-> IF HasAttr(stats, "calib") THEN stats.calib ELSE 1,
         delta |-> stats.delta,
         processing |-> IF HasAttr(stats, "processing")
                          THEN stats.processing ELSE <<>>,
         instrument_response |-> IF HasAttr(stats, "response")
                                   THEN "available" ELSE "not-available"]]

\* the trace the record is built from
PickLast(st) == st[Len(st)]

Pick(st) == st[1]

\* lines 118-165
Assemble(i) ==
  /\ pc[i] = "assemble"
  /\ LET st == stream[Frame(i)]
     IN IF Len(st) = 0
          THEN Return(i, Failure("no-traces", "No traces found in miniSEED data"))
          ELSE Return(i, Success(i, Pick(st)))
  /\ UNCHANGED <<args, params, response, stream, served, requests, decoded,
                 statsVars>>

Init ==
  /\ args \in [Queries -> QueryArgs]
  /\ FetchIdle
  /\ trace_data = <<>>
  /\ stats_pc = "idle"
  /\ stats_out = NoValue

Next ==
  \E i \in Queries :
    \/ Begin(i)
    \/ Request(i)
    \/ Check(i)
    \/ Decode(i)
    \/ Assemble(i)

Spec == Init /\ [][Next]_vars

\* ------------------------------------------- the statistics step taken alone
SampleValues == {MinInt32, -46341, -5, 0, 3, 46340, MaxInt32}

SampleSeqs == UNION {[1..n -> SampleValues] : n \in 0..MaxSamples}

StatsInit ==
  /\ args = [i \in Queries |-> [start_time |-> "2024-01-01T00:00:00",
                                end_time |-> "2024-01-01 00:10:00"]]
  /\ FetchIdle
  /\ trace_data \in SampleSeqs
  /\ stats_pc = "start"
  /\ stats_out = NoValue

\* lines 134-135 on the data of one trace
Analyze ==
  /\ stats_pc = "start"
  /\ stats_out' = [peak_amplitude |-> PeakAmplitude(trace_data),
                   rms_amplitude |-> RmsAmplitude(trace_data)]
  /\ stats_pc' = "done"
  /\ UNCHANGED <<fetchVars, trace_data>>

StatsNext == Analyze

StatsSpec == StatsInit /\ [][StatsNext]_vars

\* =================================================================== claims
Done(i) == pc[i] = "done"
Ended(i) == pc[i] \in {"done", "raised"}
Answered(i) == served[i] # NoValue /\ ~served[i].raises
Faulted(i) == served[i] # NoValue /\ served[i].raises
WindowOf(i) ==
  [start |-> UTCDateTime(args[i].start_time),
   end |-> UTCDateTime(args[i].end_time)]
BothParse(i) == Parses(args[i].start_time) /\ Parses(args[i].end_time)
IsFailureOfKind(r, kind) ==
  /\ "error" \in DOMAIN r
  /\ ~r.success
  /\ r.error = kind

\* C1: a query whose end instant is not after its start instant ends in a
\* Failure of kind InvalidTimeRange and never issues a request; a query
\* with start < end issues its request.
C1_WindowValidated ==
  \A i \in Queries :
    BothParse(i) =>
      IF WindowOf(i).end <= WindowOf(i).start
        THEN /\ requests[i] = <<>>
             /\ Done(i) => IsFailureOfKind(result[i], "InvalidTimeRange")
        ELSE Done(i) => Len(requests[i]) = 1

\* C2: status 404 and status 204 both end in no-data-available, with
\* different messages; every other status but 200 ends in http-<status>;
\* only a 200 response reaches the body-length check and the decoder.
C2_StatusClassified ==
  \A i \in Queries :
    (Answered(i) /\ pc[i] # "classify") =>
      LET st == served[i].status_code
      IN /\ st \in {204, 404} =>
              /\ Done(i)
              /\ IsFailureOfKind(result[i], "no-data-available")
              /\ \A j \in Queries :
                   (Done(j) /\ Answered(j) /\ served[j].status_code \in {204, 404}
                      /\ served[j].status_code # st)
                     => /\ result[j].message # result[i].message
                        /\ result[j].error = result[i].error
         /\ st \notin {200, 204, 404} =>
              /\ Done(i)
              /\ IsFailureOfKind(result[i], "http-" \o ToString(st))
         /\ st # 200 => decoded[i] = <<>>
         /\ (pc[i] \in {"decode", "assemble"} \/ decoded[i] # <<>>
               \/ (Done(i) /\ result[i].success)
               \/ (Done(i) /\ IsFailureOfKind(result[i], "empty-response")))
              => st = 200

C2_Witness ==
  \E i, j \in Queries :
    /\ Done(i) /\ Answered(i) /\ served[i].status_code = 500
    /\ served[i].content.len > 0
    /\ Done(j) /\ Answered(j) /\ served[j].status_code = 204

\* C3: the decoder is never handed a zero-length body; a 200 response with
\* an empty body ends in empty-response with no decoding step taken.
C3_EmptyNeverDecoded ==
  \A i \in Queries :
    /\ \A k \in 1..Len(decoded[i]) : decoded[i][k] > 0
    /\ (Answered(i) /\ served[i].status_code = 200
          /\ served[i].content.len = 0 /\ pc[i] # "classify")
         => /\ Done(i)
            /\ IsFailureOfKind(result[i], "empty-response")
            /\ decoded[i] = <<>>

C3_Witness ==
  \E i \in Queries :
    /\ Done(i) /\ Answered(i)
    /\ served[i].status_code = 200 /\ served[i].content.len = 0

\* C4: when decoding a non-empty payload fails, the invocation returns a
\* Failure of kind parsing-error whose message carries the cause; the
\* exception does not leave the function and the record holds no samples
\* and no trace fields.
C4_DecodeFailureRecovered ==
  \A i \in Queries :
    (Ended(i) /\ decoded[i] # <<>> /\ Read(served[i].content).raises) =>
      /\ Done(i)
      /\ result[i] =
           [success |-> FALSE, error |-> "parsing-error",
            message |-> "Error parsing miniSEED data: "
                          \o Read(served[i].content).exc.text,
            samples |-> <<>>, metadata |-> <<>>]

C4_Witness ==
  \E i \in Queries :
    /\ Done(i) /\ decoded[i] # <<>>
    /\ served[i].content.name = "truncated"

RECURSIVE WideMax(_)
WideMax(ws) ==
  IF Len(ws) = 1 THEN ws[1]
  ELSE LET m == WideMax(Tail(ws)) IN IF WideLeq(m, ws[1]) THEN ws[1] ELSE m

RefPeak(data) ==
  IF data = <<>> THEN Wide(0)
  ELSE WideMax([k \in 1..Len(data) |-> WideAbs(data[k])])

RefRms(data) ==
  IF data = <<>> THEN ZeroFloat
  ELSE [nan |-> FALSE,
        num |-> WideSum([k \in 1..Len(data) |->
                           WideMul(WideAbs(data[k]), WideAbs(data[k]))]),
        den |-> Len(data)]

\* peak >= rms, that is peak >= 0, rms a number and peak^2 * n >= sum of squares
PeakAtLeastRms(st) ==
  /\ ~st.rms_amplitude.nan
  /\ st.peak_amplitude >= 0
  /\ WideLeq(st.rms_amplitude.num,
             WideMul(WideMul(Wide(st.peak_amplitude), Wide(st.peak_amplitude)),
                     Wide(st.rms_amplitude.den)))

\* C6: for every int32 sample sequence, extremes included, the reported
\* peak is the largest absolute value and the reported rms the root of the
\* mean square, without wraparound; both are 0.0 for the empty sequence;
\* the peak is never negative and never below the rms.
C6_StatisticsExact ==
  stats_pc = "done" =>
    /\ Wide(stats_out.peak_amplitude) = RefPeak(trace_data)
    /\ stats_out.rms_amplitude = RefRms(trace_data)
    /\ trace_data = <<>> =>
         stats_out.peak_amplitude = 0 /\ stats_out.rms_amplitude = ZeroFloat
    /\ stats_out.peak_amplitude >= 0
    /\ PeakAtLeastRms(stats_out)

SuccessFields ==
  {"success", "network", "station", "location", "channel", "starttime",
   "endtime", "sampling_rate", "npts", "duration", "samples",
   "peak_amplitude", "rms_amplitude", "quality", "format", "metadata"}

FailureFields == {"success", "error", "message", "samples", "metadata"}

\* C7: every returned record is either a Success record (success true, the
\* trace fields, samples and statistics, no error kind) or a Failure record
\* (success false, a non-empty kind and message, empty samples and metadata).
C7_OneVariant ==
  \A i \in Queries :
    Ended(i) =>
      LET r == result[i]
      IN /\ Done(i)
         /\ "success" \in DOMAIN r
         /\ IF r.success
              THEN /\ DOMAIN r = SuccessFields
                   /\ DOMAIN r.metadata =
                        {"calib", "delta", "processing", "instrument_response"}
              ELSE /\ DOMAIN r = FailureFields
                   /\ r.error # "" /\ r.message # ""
                   /\ r.samples = <<>> /\ r.metadata = <<>>

C7_Witness ==
  \E i, j \in Queries :
    /\ Done(i) /\ result[i].success /\ result[i].samples # <<>>
    /\ Done(j) /\ ~result[j].success

\* C8: a non-empty payload that decodes into zero traces ends in a Failure
\* of kind no-traces; one that decodes into one or more traces ends in a
\* Success record built from the first trace only.
C8_FirstTraceOrNoTraces ==
  \A i \in Queries :
    (Ended(i) /\ decoded[i] # <<>> /\ ~Read(served[i].content).raises) =>
      LET st == Read(served[i].content).stream
          r == result[i]
      IN /\ Done(i)
         /\ IF st = <<>>
              THEN IsFailureOfKind(r, "no-traces")
              ELSE /\ r.success
                   /\ r.samples = st[1].data
                   /\ r.network = st[1].stats.network
                   /\ r.station = st[1].stats.station
                   /\ r.channel = st[1].stats.channel
                   /\ r.npts = st[1].stats.npts
                   /\ r.peak_amplitude = PeakAmplitude(st[1].data)
                   /\ r.rms_amplitude = RmsAmplitude(st[1].data)

C8_Witness ==
  \E i, j \in Queries :
    /\ Done(i) /\ decoded[i] # <<>> /\ served[i].content.name = "norecords"
    /\ Done(j) /\ decoded[j] # <<>> /\ served[j].content.name = "two"

\* The record one invocation returns when it runs alone, from its arguments
\* and what the remote serves it.
Alone(i, a, o) ==
  IF ~Parses(a.start_time) \/ ~Parses(a.end_time)
    THEN Catch([cls |-> "ValueError", text |-> "not a timestamp"])
  ELSE IF o.raises THEN Catch(o.exc)
  ELSE IF Classify(i, o) # NoValue THEN Classify(i, o)
  ELSE IF Read(o.content).raises THEN Catch(Read(o.content).exc)
  ELSE IF Read(o.content).stream = <<>>
    THEN Failure("no-traces", "No traces found in miniSEED data")
  ELSE Success(i, Read(o.content).stream[1])

\* C9: under every interleaving of the invocations, each one returns the
\* record it returns when run alone and sends the request of its own
\* arguments: no invocation sees what another one wrote.
C9_Isolated ==
  \A i \in Queries :
    /\ Done(i) =>
         result[i] = Alone(i, args[i], served[i])
    /\ \A k \in 1..Len(requests[i]) :
         requests[i][k].params =
           BuildParams(i, UTCDateTime(args[i].start_time),
                          UTCDateTime(args[i].end_time))

C9_Witness ==
  /\ \A i \in Queries : Done(i) /\ Answered(i)
  /\ \E i, j \in Queries :
       /\ result[i].success
       /\ IsFailureOfKind(result[j], "http-500")

\* C10: an invocation issues at most one request; once the request has had
\* its outcome the invocation ends with a record and the request count
\* stays at one.
C10_SingleRequest ==
  \A i \in Queries :
    /\ Len(requests[i]) <= 1
    /\ served[i] # NoValue => Len(requests[i]) = 1
    /\ (Done(i) /\ BothParse(i)) => Len(requests[i]) = 1
    /\ pc[i] = "request" => requests[i] = <<>>

C10_Witness ==
  \E i, j \in Queries :
    /\ Done(i) /\ Faulted(i) /\ Len(requests[i]) = 1
    /\ Done(j) /\ Answered(j) /\ served[j].status_code = 500
    /\ Len(requests[j]) = 1

====
